---- MODULE Spec2Model ----
(***************************************************************************)
(* Model of app/video.py: VideoStream (one capture source, one background  *)
(* thread `update`, three locks, a single-slot frame plus an Event) and    *)
(* VideoManager (the per-user registry of streams).                        *)
(*                                                                         *)
(* Threads of the program:                                                 *)
(*   - one background thread per constructed VideoStream (VideoStream.     *)
(*     update), modelled statement by statement;                           *)
(*   - caller threads executing VideoManager methods; every statement that *)
(*     touches shared state is one step;                                   *)
(*   - consumer threads draining the generator VideoManager.get_frames.    *)
(***************************************************************************)
EXTENDS Integers, Sequences, FiniteSets, TLC

VARIABLES
    streams,          \* VideoManager.streams: user -> session id (0: key absent)
    user_to_camera,   \* VideoManager.user_to_camera: user -> camera id (0: key absent)
    models,           \* module-level cache of loaded models (set of names)
    nsess,            \* number of VideoStream objects constructed so far
    owner,            \* history: the user a stream was constructed for
    lastcam,          \* history: camera_id of the user's most recent start_stream call
    running,          \* VideoStream.running
    model_name,       \* VideoStream.model_name
    threshold,        \* VideoStream.threshold (in hundredths)
    cap,              \* VideoStream.cap: index into handles
    url,              \* VideoStream.url
    frame,            \* VideoStream.frame (NoFrame: None)
    new_frame_event,  \* VideoStream.new_frame_event
    cap_lock,         \* VideoStream.cap_lock: 0 free, else the holder (a caller, or UnitThread)
    model_lock,       \* VideoStream.model_lock: 0 free, else the holder (a caller, or UnitThread)
    lock,             \* VideoStream.lock: TRUE while the background thread holds it
    thread,           \* VideoStream.thread: position and locals of update()
    handles,          \* every cv2.VideoCapture ever created: [src, open]
    nacq,             \* frames successfully read so far, per stream
    cfgs,             \* history: every (model_name, threshold) pair the stream held with model_lock free
    dirty,            \* history: update_params wrote to the stream since its current cycle began
    stopped,          \* history: stop() has returned at least once for the stream
    swapped,          \* history: update_url replaced the capture since the stream's current cycle began
    opened,           \* history: every capture (index into handles) the stream has opened
    call,             \* per caller thread: the VideoManager method in progress
    result,           \* per caller thread: outcome of its last finished call
    gen               \* per consumer: the get_frames generator it drains

vars == <<streams, user_to_camera, models, nsess, owner, lastcam, running, model_name,
          threshold, cap, url, frame, new_frame_event, cap_lock, model_lock,
          lock, thread, handles, nacq, cfgs, dirty, stopped, swapped, opened, call, result, gen>>

(***************************************************************************)
(* Bounds of the model.                                                    *)
(***************************************************************************)
MaxSessions == 2
MaxFrames == 2
MaxHandles == 3

\* Every user the registry is keyed by, and the users the application's callers act for.
AllUsers == {1, 2}
Users == {1}
Cameras == {10, 99}
Urls == {"0", "rtsp://a"}
Sessions == 1..MaxSessions
Callers == {1}
ConcCallers == {1, 2}
Consumers == {1}

\* Python's None where a string is expected, distinct from the string "None".
PyNone == "<None>"
\* model_name arguments: the sentinel string "None" or a model identifier.
StartModels == {"None", "m1"}
StartThresholds == {30}
ParamModels == {PyNone, "None", "m1"}
\* Optional[float]: <<>> is None, <<t>> a value in hundredths.
ParamThresholds == {<<>>, <<50>>}

\* load_models(): the names preloaded into the cache at application start.
Preloaded == {"yolov8n", "yolov8s"}

\* self.frame = None
NoFrame == [id |-> 0, src |-> 0, model |-> PyNone, thr |-> 0]

\* cv2.VideoCapture(0) for the url "0", cv2.VideoCapture(url) otherwise.
VideoCapture(u) == IF u = "0" THEN [src |-> <<"device", "0">>, open |-> TRUE]
                   ELSE [src |-> <<"uri", u>>, open |-> TRUE]

\* The locals of update() before its first iteration (success: the flag
\* returned by the last cap.read(), TRUE before any read).
NewThread(p) == [pc |-> p, cap |-> 0, success |-> TRUE, frame |-> NoFrame,
                 model |-> PyNone, thr |-> 0]

\* threading.Thread.is_alive()
Alive(s) == thread[s].pc \notin {"unborn", "done", "crashed"}

IdleCall == [op |-> "idle", pc |-> "idle", u |-> 0, cam |-> 0, url |-> "",
             model |-> PyNone, thr |-> <<>>, s |-> 0]
NoResult == [op |-> "none", out |-> "none"]
\* pc, u, s (the local `stream`), f (the local `frame`) and history: last (id of
\* the frame yielded last), nosess (the user had no stream and no start_stream
\* in progress when get_frames was called), live (the stream was running when
\* the generator took hold of it), chk (the stream registered for the user when
\* the generator tested `user_id not in self.streams`).
NoGen == [pc |-> "none", u |-> 0, s |-> 0, f |-> NoFrame, last |-> 0,
          nosess |-> FALSE, live |-> FALSE, chk |-> 0]

Init ==
    /\ streams = [u \in AllUsers |-> 0]
    /\ user_to_camera = [u \in AllUsers |-> 0]
    /\ models = Preloaded
    /\ nsess = 0
    /\ owner = [s \in Sessions |-> 0]
    /\ lastcam = [u \in AllUsers |-> 0]
    /\ running = [s \in Sessions |-> FALSE]
    /\ model_name = [s \in Sessions |-> PyNone]
    /\ threshold = [s \in Sessions |-> 0]
    /\ cap = [s \in Sessions |-> 0]
    /\ url = [s \in Sessions |-> ""]
    /\ frame = [s \in Sessions |-> NoFrame]
    /\ new_frame_event = [s \in Sessions |-> FALSE]
    /\ cap_lock = [s \in Sessions |-> 0]
    /\ model_lock = [s \in Sessions |-> 0]
    /\ lock = [s \in Sessions |-> FALSE]
    /\ thread = [s \in Sessions |-> NewThread("unborn")]
    /\ handles = <<>>
    /\ nacq = [s \in Sessions |-> 0]
    /\ cfgs = [s \in Sessions |-> {}]
    /\ dirty = [s \in Sessions |-> FALSE]
    /\ stopped = [s \in Sessions |-> FALSE]
    /\ swapped = [s \in Sessions |-> FALSE]
    /\ opened = [s \in Sessions |-> {}]
    /\ call = [c \in ConcCallers |-> IdleCall]
    /\ result = [c \in ConcCallers |-> NoResult]
    /\ gen = [k \in Consumers |-> NoGen]

regVars == <<streams, user_to_camera>>
lockVars == <<cap_lock, model_lock, lock>>
cfgVars == <<model_name, threshold, cfgs>>
capVars == <<cap, url, handles>>
frameVars == <<frame, new_frame_event>>
callVars == <<call, result>>
sessVars == <<nsess, owner, lastcam>>

(***************************************************************************)
(* VideoStream.update: the background thread.                              *)
(***************************************************************************)

\* The holder recorded in cap_lock / model_lock while the background thread of
\* the stream is inside its `with` block (callers are recorded by their number).
UnitThread == -1

\* `while self.running:` -- one evaluation of the loop condition.
UnitWhile(s) ==
    /\ thread[s].pc = "while"
    /\ thread' = [thread EXCEPT ![s] =
                    IF running[s] THEN NewThread("getcap") ELSE NewThread("done")]
    /\ dirty' = [dirty EXCEPT ![s] = FALSE]
    /\ swapped' = [swapped EXCEPT ![s] = FALSE]
    /\ UNCHANGED <<regVars, models, sessVars, running, cfgVars, capVars, frameVars,
                   lockVars, nacq, stopped, callVars, gen, opened>>

\* The guard of `with self.cap_lock:` in update().
CapLockFree(s) == cap_lock[s] = 0

\* `with self.cap_lock:` is entered.
UnitLockCap(s) ==
    /\ thread[s].pc = "getcap"
    /\ CapLockFree(s)
    /\ cap_lock' = [cap_lock EXCEPT ![s] = UnitThread]
    /\ thread' = [thread EXCEPT ![s].pc = "cap"]
    /\ UNCHANGED <<regVars, models, sessVars, running, cfgVars, capVars, frameVars,
                   model_lock, lock, nacq, stopped, swapped, dirty, callVars, gen, opened>>

\* Mutant: the thread keeps the capture its last stored frame came from.
ReadCap_Cached(s) == IF frame[s] # NoFrame THEN frame[s].src ELSE cap[s]

\* `cap = self.cap`
ReadCap(s) == cap[s]

\* `cap = self.cap` and the end of the `with self.cap_lock:` block.
UnitGetCap(s) ==
    /\ thread[s].pc = "cap"
    /\ cap_lock' = [cap_lock EXCEPT ![s] = 0]
    /\ thread' = [thread EXCEPT ![s].pc = "read", ![s].cap = ReadCap(s)]
    /\ UNCHANGED <<regVars, models, sessVars, running, cfgVars, capVars, frameVars,
                   model_lock, lock, nacq, stopped, swapped, dirty, callVars, gen, opened>>

\* Mutant: after a failed read the loop body is entered again without the
\* loop condition being evaluated.
Continue_NoCheck == "getcap"

\* Mutant: after a failed read the rest of the loop body still runs.
Continue_Publish == "publish"

\* `continue`: the position of update() after a failed read.
Continue == "while"

\* `success, frame = cap.read()` followed by `if not success: continue`.
\* A read may fail at any time; it succeeds only on an open handle.
UnitRead(s) ==
    /\ thread[s].pc = "read"
    /\ \/ /\ handles[thread[s].cap].open
          /\ nacq[s] < MaxFrames
          /\ nacq' = [nacq EXCEPT ![s] = @ + 1]
          /\ thread' = [thread EXCEPT ![s].pc = "getcfg",
                          ![s].frame = [id |-> nacq[s] + 1, src |-> thread[s].cap,
                                        model |-> PyNone, thr |-> 0]]
       \/ /\ thread' = [thread EXCEPT ![s] = [NewThread(Continue) EXCEPT !.success = FALSE]]
          /\ UNCHANGED nacq
    /\ UNCHANGED <<regVars, models, sessVars, running, cfgVars, capVars, frameVars,
                   lockVars, stopped, swapped, dirty, callVars, gen, opened>>

\* Mutant: update() copies the parameters without taking model_lock.
ModelLockFree_NoLock(s) == TRUE

\* The guard of `with self.model_lock:` in update().
ModelLockFree(s) == model_lock[s] = 0

\* `with self.model_lock:` is entered.
UnitLockParams(s) ==
    /\ thread[s].pc = "getcfg"
    /\ ModelLockFree(s)
    /\ model_lock' = [model_lock EXCEPT ![s] = UnitThread]
    /\ thread' = [thread EXCEPT ![s].pc = "cfg"]
    /\ UNCHANGED <<regVars, models, sessVars, running, cfgVars, capVars, frameVars,
                   cap_lock, lock, nacq, stopped, swapped, dirty, callVars, gen, opened>>

\* Mutant: update() keeps the model it was constructed without.
ReadParams_NoModel(s) == <<PyNone, threshold[s]>>

\* The pair update() copies under model_lock.
ReadParams(s) == <<model_name[s], threshold[s]>>

\* Mutant: the model is run whatever the local model_name is.
NeedsModel_Always(m) == TRUE

\* `if model_name is not None:`
NeedsModel(m) == m # PyNone

\* `model_name = self.model_name; threshold = self.threshold`, the end of the
\* `with self.model_lock:` block and the test `if model_name is not None` on
\* the local copy.
UnitGetParams(s) ==
    /\ thread[s].pc = "cfg"
    /\ model_lock' = [model_lock EXCEPT ![s] = 0]
    /\ LET p == ReadParams(s) IN
       thread' = [thread EXCEPT ![s].pc = IF NeedsModel(p[1]) THEN "infer" ELSE "publish",
                                ![s].model = p[1], ![s].thr = p[2]]
    /\ UNCHANGED <<regVars, models, sessVars, running, cfgVars, capVars, frameVars,
                   cap_lock, lock, nacq, stopped, swapped, dirty, callVars, gen, opened>>

\* Mutant: the plotted result is dropped and the raw frame kept.
Annotate_Raw(f, m, t) == f

\* results[0].plot(): the frame annotated by model m with confidence t.
Annotate(f, m, t) == [f EXCEPT !.model = m, !.thr = t]

\* Lines 70-77: load the model into the cache if missing, run it, plot.
\* YOLO(path) and model(frame, ...) may raise; nothing in update() catches it,
\* so the exception ends the thread.
UnitInfer(s) ==
    /\ thread[s].pc = "infer"
    /\ \/ /\ models' = models \cup {thread[s].model}
          /\ thread' = [thread EXCEPT ![s].pc = "publish",
                          ![s].frame = Annotate(@, thread[s].model, thread[s].thr)]
       \/ /\ thread[s].model \notin models
          /\ UNCHANGED models
          /\ thread' = [thread EXCEPT ![s] = NewThread("crashed")]
       \/ /\ models' = models \cup {thread[s].model}
          /\ thread' = [thread EXCEPT ![s] = NewThread("crashed")]
    /\ UNCHANGED <<regVars, sessVars, running, cfgVars, capVars, frameVars,
                   lockVars, nacq, stopped, swapped, dirty, callVars, gen, opened>>

\* Mutant: the frame lock is still held after the `with self.lock:` block.
Unlocked_Held == TRUE

\* self.lock once the `with self.lock:` block is left.
Unlocked == FALSE

\* Mutant: the thread also waits until the previous frame has been taken.
FrameLockFree_Consumed(s) == ~lock[s] /\ ~new_frame_event[s]

\* The guard of `with self.lock:` in update().
FrameLockFree(s) == ~lock[s]

\* `with self.lock: self.frame = frame`
UnitPublish(s) ==
    /\ thread[s].pc = "publish"
    /\ FrameLockFree(s)
    /\ lock' = [lock EXCEPT ![s] = TRUE]
    /\ frame' = [frame EXCEPT ![s] = thread[s].frame]
    /\ thread' = [thread EXCEPT ![s].pc = "set"]
    /\ UNCHANGED <<regVars, models, sessVars, running, cfgVars, capVars,
                   new_frame_event, cap_lock, model_lock, nacq, stopped, swapped, dirty, callVars, gen, opened>>

\* `self.new_frame_event.set()` and the end of the `with self.lock:` block.
UnitSet(s) ==
    /\ thread[s].pc = "set"
    /\ new_frame_event' = [new_frame_event EXCEPT ![s] = TRUE]
    /\ lock' = [lock EXCEPT ![s] = Unlocked]
    /\ thread' = [thread EXCEPT ![s] = NewThread("while")]
    /\ UNCHANGED <<regVars, models, sessVars, running, cfgVars, capVars,
                   frame, cap_lock, model_lock, nacq, stopped, swapped, dirty, callVars, gen, opened>>

UnitStep(s) ==
    \/ UnitWhile(s)
    \/ UnitLockCap(s)
    \/ UnitGetCap(s)
    \/ UnitRead(s)
    \/ UnitLockParams(s)
    \/ UnitGetParams(s)
    \/ UnitInfer(s)
    \/ UnitPublish(s)
    \/ UnitSet(s)

(***************************************************************************)
(* Caller threads: the VideoManager methods and the VideoStream methods    *)
(* they call.                                                              *)
(***************************************************************************)

\* The call of caller c returns (or raises) with outcome out.
Return(c, out) ==
    /\ call' = [call EXCEPT ![c] = IdleCall]
    /\ result' = [result EXCEPT ![c] = [op |-> call[c].op, out |-> out]]

Goto(c, p) ==
    /\ call' = [call EXCEPT ![c].pc = p]
    /\ UNCHANGED result

\* Calls in progress that will still construct a VideoStream / open a capture /
\* complete an update_params: they keep the bounded counters within bounds.
PendingStarts == Cardinality({d \in ConcCallers : call[d].op = "start_stream"
                                 /\ call[d].pc # "ss_store"})
PendingOpens == Cardinality({d \in ConcCallers :
                                \/ call[d].op = "start_stream" /\ call[d].pc # "ss_store"
                                \/ call[d].op = "update_url"})

\* Mutant: release() on a handle that is already released opens it again.
Released_Reopened(h) == [h EXCEPT !.open = ~@]

\* cv2.VideoCapture.release(): the handle is closed; a closed handle stays closed.
Released(h) == [h EXCEPT !.open = FALSE]

----
\* VideoStream.stop, called from start_stream and stop_stream or directly.

\* `stream.stop()` on a VideoStream that has been constructed.
CallStop(c, s) ==
    /\ call[c].op = "idle"
    /\ s \in 1..nsess
    /\ call' = [call EXCEPT ![c] = [IdleCall EXCEPT !.op = "stop", !.pc = "stop_flag", !.s = s]]
    /\ UNCHANGED <<regVars, models, sessVars, running, cfgVars, capVars, frameVars,
                   lockVars, thread, nacq, stopped, swapped, dirty, result, gen, opened>>

\* `self.running = False`
StopFlag(c) ==
    /\ call[c].pc = "stop_flag"
    /\ running' = [running EXCEPT ![call[c].s] = FALSE]
    /\ Goto(c, "stop_join")
    /\ UNCHANGED <<regVars, models, sessVars, cfgVars, capVars, frameVars, lockVars,
                   thread, nacq, stopped, swapped, dirty, gen, opened>>

\* Mutant: join() returns while the thread is still running.
Joined_NoWait(s) == TRUE

\* What `self.thread.join()` waits for.
Joined(s) == ~Alive(s)

\* `self.thread.join()`
StopJoin(c) ==
    /\ call[c].pc = "stop_join"
    /\ Joined(call[c].s)
    /\ Goto(c, "stop_release")
    /\ UNCHANGED <<regVars, models, sessVars, running, cfgVars, capVars, frameVars,
                   lockVars, thread, nacq, stopped, swapped, dirty, gen, opened>>

\* `self.cap.release()` (self.cap is read without cap_lock), then stop() returns
\* into the method that called it.
StopRelease(c) ==
    /\ call[c].pc = "stop_release"
    /\ handles' = [handles EXCEPT ![cap[call[c].s]] = Released(@)]
    /\ stopped' = [stopped EXCEPT ![call[c].s] = TRUE]
    /\ IF call[c].op = "stop" THEN Return(c, "ok")
       ELSE Goto(c, IF call[c].op = "start_stream" THEN "ss_record" ELSE "sp_del")
    /\ UNCHANGED <<regVars, models, sessVars, running, cfgVars, cap, url, frameVars,
                   lockVars, thread, nacq, swapped, dirty, gen, opened>>

----
\* VideoManager.start_stream

CallStartStream(c, u, cam, src, m, t) ==
    /\ call[c].op = "idle"
    /\ nsess + PendingStarts < MaxSessions
    /\ Len(handles) + PendingOpens < MaxHandles
    /\ call' = [call EXCEPT ![c] = [op |-> "start_stream", pc |-> "ss_check", u |-> u,
                                    cam |-> cam, url |-> src, model |-> m,
                                    thr |-> <<t>>, s |-> 0]]
    /\ lastcam' = [lastcam EXCEPT ![u] = cam]
    /\ UNCHANGED <<regVars, models, nsess, owner, running, cfgVars, capVars, frameVars,
                   lockVars, thread, nacq, stopped, swapped, dirty, result, gen, opened>>

\* `if user_id in self.streams:`
StartCheck(c) ==
    /\ call[c].pc = "ss_check"
    /\ Goto(c, IF streams[call[c].u] # 0 THEN "ss_lookup" ELSE "ss_record")
    /\ UNCHANGED <<regVars, models, sessVars, running, cfgVars, capVars, frameVars,
                   lockVars, thread, nacq, stopped, swapped, dirty, gen, opened>>

\* `self.streams[user_id]` in `self.streams[user_id].stop()`
StartLookup(c) ==
    /\ call[c].pc = "ss_lookup"
    /\ IF streams[call[c].u] = 0
       THEN Return(c, "KeyError")
       ELSE /\ call' = [call EXCEPT ![c].pc = "stop_flag", ![c].s = streams[call[c].u]]
            /\ UNCHANGED result
    /\ UNCHANGED <<regVars, models, sessVars, running, cfgVars, capVars, frameVars,
                   lockVars, thread, nacq, stopped, swapped, dirty, gen, opened>>

\* Mutant: the value is stored under every key.
Stored_Everywhere(reg, u, x) == [v \in AllUsers |-> x]

\* The dict after `reg[u] = x`.
Stored(reg, u, x) == [reg EXCEPT ![u] = x]

\* Mutant: a camera already recorded for the user is kept.
RecordedCamera_First(old, cam) == IF old # 0 THEN old ELSE cam

\* The camera start_stream records for a user whose entry was old (0: none).
RecordedCamera(old, cam) == cam

\* `self.user_to_camera[user_id] = camera_id`
StartRecord(c) ==
    /\ call[c].pc = "ss_record"
    /\ user_to_camera' = Stored(user_to_camera, call[c].u,
                               RecordedCamera(user_to_camera[call[c].u], call[c].cam))
    /\ Goto(c, "ss_create")
    /\ UNCHANGED <<streams, models, sessVars, running, cfgVars, capVars, frameVars,
                   lockVars, thread, nacq, stopped, swapped, dirty, gen, opened>>

\* `self.model_name = None if model_name == "None" else model_name`
InitModelName(m) == IF m = "None" THEN PyNone ELSE m

\* `VideoStream(url, model_name, threshold)`: __init__ sets the fields, opens the
\* capture and starts the background thread.
StartCreate(c) ==
    /\ call[c].pc = "ss_create"
    /\ LET s == nsess + 1 IN
       /\ nsess' = s
       /\ owner' = [owner EXCEPT ![s] = call[c].u]
       /\ url' = [url EXCEPT ![s] = call[c].url]
       /\ model_name' = [model_name EXCEPT ![s] = InitModelName(call[c].model)]
       /\ threshold' = [threshold EXCEPT ![s] = call[c].thr[1]]
       /\ cfgs' = [cfgs EXCEPT ![s] = { <<InitModelName(call[c].model), call[c].thr[1]>> }]
       /\ handles' = Append(handles, VideoCapture(call[c].url))
       /\ cap' = [cap EXCEPT ![s] = Len(handles) + 1]
       /\ opened' = [opened EXCEPT ![s] = {Len(handles) + 1}]
       /\ running' = [running EXCEPT ![s] = TRUE]
       /\ frame' = [frame EXCEPT ![s] = NoFrame]
       /\ new_frame_event' = [new_frame_event EXCEPT ![s] = FALSE]
       /\ thread' = [thread EXCEPT ![s] = NewThread("while")]
       /\ call' = [call EXCEPT ![c].pc = "ss_store", ![c].s = s]
    /\ UNCHANGED <<regVars, models, lastcam, lockVars, nacq, stopped, swapped, dirty, result, gen>>

\* `self.streams[user_id] = <the new VideoStream>`
StartStore(c) ==
    /\ call[c].pc = "ss_store"
    /\ streams' = Stored(streams, call[c].u, call[c].s)
    /\ Return(c, "ok")
    /\ UNCHANGED <<user_to_camera, models, sessVars, running, cfgVars, capVars, frameVars,
                   lockVars, thread, nacq, stopped, swapped, dirty, gen, opened>>

----
\* VideoManager.stop_stream

CallStopStream(c, u) ==
    /\ call[c].op = "idle"
    /\ call' = [call EXCEPT ![c] = [IdleCall EXCEPT !.op = "stop_stream",
                                                     !.pc = "sp_check", !.u = u]]
    /\ UNCHANGED <<regVars, models, sessVars, running, cfgVars, capVars, frameVars,
                   lockVars, thread, nacq, stopped, swapped, dirty, result, gen, opened>>

\* `if user_id in self.streams:`
StopCheck(c) ==
    /\ call[c].pc = "sp_check"
    /\ IF streams[call[c].u] # 0 THEN Goto(c, "sp_lookup") ELSE Return(c, "noop")
    /\ UNCHANGED <<regVars, models, sessVars, running, cfgVars, capVars, frameVars,
                   lockVars, thread, nacq, stopped, swapped, dirty, gen, opened>>

\* `self.streams[user_id]` in `self.streams[user_id].stop()`
StopLookup(c) ==
    /\ call[c].pc = "sp_lookup"
    /\ IF streams[call[c].u] = 0
       THEN Return(c, "KeyError")
       ELSE /\ call' = [call EXCEPT ![c].pc = "stop_flag", ![c].s = streams[call[c].u]]
            /\ UNCHANGED result
    /\ UNCHANGED <<regVars, models, sessVars, running, cfgVars, capVars, frameVars,
                   lockVars, thread, nacq, stopped, swapped, dirty, gen, opened>>

\* Mutant: the registry is emptied.
Deleted_All(reg, u) == [v \in AllUsers |-> 0]

\* The dict after `del reg[u]`.
Deleted(reg, u) == [reg EXCEPT ![u] = 0]

\* `del self.streams[user_id]`
StopDel(c) ==
    /\ call[c].pc = "sp_del"
    /\ IF streams[call[c].u] = 0
       THEN /\ Return(c, "KeyError")
            /\ UNCHANGED streams
       ELSE /\ streams' = Deleted(streams, call[c].u)
            /\ Return(c, "ok")
    /\ UNCHANGED <<user_to_camera, models, sessVars, running, cfgVars, capVars, frameVars,
                   lockVars, thread, nacq, stopped, swapped, dirty, gen, opened>>

----
\* VideoManager.update_params and VideoStream.update_params

CallUpdateParams(c, u, m, t) ==
    /\ call[c].op = "idle"
    /\ call' = [call EXCEPT ![c] = [IdleCall EXCEPT !.op = "update_params", !.pc = "up_check",
                                                     !.u = u, !.model = m, !.thr = t]]
    /\ UNCHANGED <<regVars, models, sessVars, running, cfgVars, capVars, frameVars,
                   lockVars, thread, nacq, stopped, swapped, dirty, result, gen, opened>>

\* `if user_id in self.streams:`
ParamsCheck(c) ==
    /\ call[c].pc = "up_check"
    /\ IF streams[call[c].u] # 0 THEN Goto(c, "up_lookup") ELSE Return(c, "noop")
    /\ UNCHANGED <<regVars, models, sessVars, running, cfgVars, capVars, frameVars,
                   lockVars, thread, nacq, stopped, swapped, dirty, gen, opened>>

\* `self.streams[user_id]` in `self.streams[user_id].update_params(...)`
ParamsLookup(c) ==
    /\ call[c].pc = "up_lookup"
    /\ IF streams[call[c].u] = 0
       THEN Return(c, "KeyError")
       ELSE /\ call' = [call EXCEPT ![c].pc = "up_model", ![c].s = streams[call[c].u]]
            /\ UNCHANGED result
    /\ UNCHANGED <<regVars, models, sessVars, running, cfgVars, capVars, frameVars,
                   lockVars, thread, nacq, stopped, swapped, dirty, gen, opened>>

\* Lines 93-97: the model_name an update_params(m, ...) call leaves, given the old one.
\* `if model_name:` is false for None (and for the empty string).
NewModelName(old, m) == IF m = PyNone \/ m = "" THEN old
                        ELSE IF m = "None" THEN PyNone ELSE m

\* Lines 98-99: the threshold an update_params(..., t) call leaves.
NewThreshold(old, t) == IF t # <<>> THEN t[1] ELSE old

\* `with self.model_lock:` is entered and lines 93-97 assign self.model_name.
ParamsModel(c) ==
    /\ call[c].pc = "up_model"
    /\ model_lock[call[c].s] = 0
    /\ model_lock' = [model_lock EXCEPT ![call[c].s] = c]
    /\ model_name' = [model_name EXCEPT ![call[c].s] = NewModelName(@, call[c].model)]
    /\ dirty' = [dirty EXCEPT ![call[c].s] = TRUE]
    /\ Goto(c, "up_thr")
    /\ UNCHANGED <<regVars, models, sessVars, running, threshold, cfgs, capVars,
                   frameVars, cap_lock, lock, thread, nacq, stopped, swapped, gen, opened>>

\* Lines 98-99 assign self.threshold, the `with` block ends, the call returns.
ParamsThreshold(c) ==
    /\ call[c].pc = "up_thr"
    /\ LET s == call[c].s
           t == NewThreshold(threshold[s], call[c].thr) IN
       /\ threshold' = [threshold EXCEPT ![s] = t]
       /\ cfgs' = [cfgs EXCEPT ![s] = @ \cup { <<model_name[s], t>> }]
       /\ model_lock' = [model_lock EXCEPT ![s] = 0]
       /\ dirty' = [dirty EXCEPT ![s] = TRUE]
    /\ Return(c, "ok")
    /\ UNCHANGED <<regVars, models, sessVars, running, model_name, capVars,
                   frameVars, cap_lock, lock, thread, nacq, stopped, swapped, gen, opened>>

----
\* VideoManager.update_url and VideoStream.update_url

CallUpdateUrl(c, u, cam, src) ==
    /\ call[c].op = "idle"
    /\ Len(handles) + PendingOpens < MaxHandles
    /\ call' = [call EXCEPT ![c] = [IdleCall EXCEPT !.op = "update_url", !.pc = "uu_check",
                                                     !.u = u, !.cam = cam, !.url = src]]
    /\ UNCHANGED <<regVars, models, sessVars, running, cfgVars, capVars, frameVars,
                   lockVars, thread, nacq, stopped, swapped, dirty, result, gen, opened>>

\* Mutant: the camera id is not compared.
UrlGuard_AnyCamera(u, cam) == streams[u] # 0

\* `user_id in self.streams and self.user_to_camera[user_id] == camera_id`
UrlGuard(u, cam) == streams[u] # 0 /\ user_to_camera[u] = cam

\* The `if` of VideoManager.update_url. self.user_to_camera[user_id] raises
\* KeyError when the key is absent.
UrlCheck(c) ==
    /\ call[c].pc = "uu_check"
    /\ IF streams[call[c].u] # 0 /\ user_to_camera[call[c].u] = 0
       THEN Return(c, "KeyError")
       ELSE IF UrlGuard(call[c].u, call[c].cam)
            THEN Goto(c, "uu_lookup") ELSE Return(c, "noop")
    /\ UNCHANGED <<regVars, models, sessVars, running, cfgVars, capVars, frameVars,
                   lockVars, thread, nacq, stopped, swapped, dirty, gen, opened>>

\* `self.streams[user_id]` in `self.streams[user_id].update_url(new_url)`
UrlLookup(c) ==
    /\ call[c].pc = "uu_lookup"
    /\ IF streams[call[c].u] = 0
       THEN Return(c, "KeyError")
       ELSE /\ call' = [call EXCEPT ![c].pc = "uu_release", ![c].s = streams[call[c].u]]
            /\ UNCHANGED result
    /\ UNCHANGED <<regVars, models, sessVars, running, cfgVars, capVars, frameVars,
                   lockVars, thread, nacq, stopped, swapped, dirty, gen, opened>>

\* `with self.cap_lock:` is entered and `self.cap.release()` runs.
UrlRelease(c) ==
    /\ call[c].pc = "uu_release"
    /\ cap_lock[call[c].s] = 0
    /\ cap_lock' = [cap_lock EXCEPT ![call[c].s] = c]
    /\ handles' = [handles EXCEPT ![cap[call[c].s]] = Released(@)]
    /\ Goto(c, "uu_open")
    /\ UNCHANGED <<regVars, models, sessVars, running, cfgVars, cap, url, frameVars,
                   model_lock, lock, thread, nacq, stopped, swapped, dirty, gen, opened>>

\* Lines 108-112: the new capture is opened and stored, self.url is set, the
\* `with` block ends, the call returns.
UrlOpen(c) ==
    /\ call[c].pc = "uu_open"
    /\ handles' = Append(handles, VideoCapture(call[c].url))
    /\ cap' = [cap EXCEPT ![call[c].s] = Len(handles) + 1]
    /\ url' = [url EXCEPT ![call[c].s] = call[c].url]
    /\ cap_lock' = [cap_lock EXCEPT ![call[c].s] = 0]
    /\ swapped' = [swapped EXCEPT ![call[c].s] = TRUE]
    /\ opened' = [opened EXCEPT ![call[c].s] = @ \cup {Len(handles) + 1}]
    /\ Return(c, "swapped")
    /\ UNCHANGED <<regVars, models, sessVars, running, cfgVars, frameVars,
                   model_lock, lock, thread, nacq, stopped, dirty, gen>>

(***************************************************************************)
(* Consumer threads: VideoManager.get_frames and VideoStream.get_frame.    *)
(* get_frames is a generator function: the call only creates the           *)
(* generator; its body runs from the first next().                         *)
(***************************************************************************)

\* User u has no stream in the registry and no start_stream call under way.
NoStreamFor(u) ==
    /\ streams[u] = 0
    /\ \A c \in ConcCallers : ~(call[c].op = "start_stream" /\ call[c].u = u)

\* `video_manager.get_frames(user_id)`: a generator object is returned.
GenCall(k, u) ==
    /\ gen[k].pc = "none"
    /\ gen' = [gen EXCEPT ![k] = [NoGen EXCEPT !.pc = "created", !.u = u,
                                               !.nosess = NoStreamFor(u)]]
    /\ UNCHANGED <<regVars, models, sessVars, running, cfgVars, capVars, frameVars,
                   lockVars, thread, nacq, stopped, swapped, dirty, callVars, opened>>

\* First next(): `if user_id not in self.streams: return None` ends the generator.
GenCheck(k) ==
    /\ gen[k].pc = "created"
    /\ gen' = [gen EXCEPT ![k].pc = IF streams[gen[k].u] = 0 THEN "ended" ELSE "lookup",
                           ![k].chk = streams[gen[k].u]]
    /\ UNCHANGED <<regVars, models, sessVars, running, cfgVars, capVars, frameVars,
                   lockVars, thread, nacq, stopped, swapped, dirty, callVars, opened>>

\* `stream = self.streams[user_id]` (KeyError if the key was deleted meanwhile).
GenLookup(k) ==
    /\ gen[k].pc = "lookup"
    /\ gen' = [gen EXCEPT ![k] = IF streams[gen[k].u] = 0
                                 THEN [@ EXCEPT !.pc = "KeyError"]
                                 ELSE [@ EXCEPT !.pc = "wait", !.s = streams[gen[k].u],
                                                !.live = running[streams[gen[k].u]]]]
    /\ UNCHANGED <<regVars, models, sessVars, running, cfgVars, capVars, frameVars,
                   lockVars, thread, nacq, stopped, swapped, dirty, callVars, opened>>

\* Mutant: wait() returns without the event being set.
EventIsSet_NoWait(s) == TRUE

\* What `self.new_frame_event.wait()` waits for.
EventIsSet(s) == new_frame_event[s]

\* `self.new_frame_event.wait()` returns.
GetFrameWait(k) ==
    /\ gen[k].pc = "wait"
    /\ EventIsSet(gen[k].s)
    /\ gen' = [gen EXCEPT ![k].pc = "copy"]
    /\ UNCHANGED <<regVars, models, sessVars, running, cfgVars, capVars, frameVars,
                   lockVars, thread, nacq, stopped, swapped, dirty, callVars, opened>>

\* `with self.lock: frame = self.frame.copy()` (AttributeError on None).
GetFrameCopy(k) ==
    /\ gen[k].pc = "copy"
    /\ ~lock[gen[k].s]
    /\ gen' = [gen EXCEPT ![k] = IF frame[gen[k].s] = NoFrame
                                 THEN [@ EXCEPT !.pc = "AttributeError"]
                                 ELSE [@ EXCEPT !.pc = "clear", !.f = frame[gen[k].s]]]
    /\ UNCHANGED <<regVars, models, sessVars, running, cfgVars, capVars, frameVars,
                   lockVars, thread, nacq, stopped, swapped, dirty, callVars, opened>>

\* Mutant: the event is left as it was.
Cleared_Kept(e) == e

\* The event after `self.new_frame_event.clear()`.
Cleared(e) == FALSE

\* `self.new_frame_event.clear()`, then the frame is encoded, returned and
\* yielded inside the multipart envelope; the generator is suspended until the
\* next next().
GetFrameClear(k) ==
    /\ gen[k].pc = "clear"
    /\ new_frame_event' = [new_frame_event EXCEPT ![gen[k].s] = Cleared(@)]
    /\ gen' = [gen EXCEPT ![k].pc = "wait", ![k].last = gen[k].f.id, ![k].f = NoFrame]
    /\ UNCHANGED <<regVars, models, sessVars, running, cfgVars, capVars, frame,
                   lockVars, thread, nacq, stopped, swapped, dirty, callVars, opened>>

ConsumerStep(k) ==
    \/ \E u \in Users : GenCall(k, u)
    \/ GenCheck(k)
    \/ GenLookup(k)
    \/ GetFrameWait(k)
    \/ GetFrameCopy(k)
    \/ GetFrameClear(k)

(***************************************************************************)
(* Specifications.                                                         *)
(***************************************************************************)

StopSteps(c) ==
    \/ StopFlag(c)
    \/ StopJoin(c)
    \/ StopRelease(c)

\* start_stream called with arguments from the given sets, at most `limit` times.
StartStreamSteps(c, cams, srcs, ms, limit) ==
    \/ \E u \in Users, cam \in cams, src \in srcs, m \in ms, t \in StartThresholds :
          nsess + PendingStarts < limit /\ CallStartStream(c, u, cam, src, m, t)
    \/ StartCheck(c)
    \/ StartLookup(c)
    \/ StartRecord(c)
    \/ StartCreate(c)
    \/ StartStore(c)

\* start_stream called once, while the user has no stream: the branch that
\* replaces an existing stream (lines 155-156) is not taken.
FirstStartSteps(c, cams, srcs, ms) ==
    \/ \E u \in Users, cam \in cams, src \in srcs, m \in ms, t \in StartThresholds :
          nsess + PendingStarts < 1 /\ CallStartStream(c, u, cam, src, m, t)
    \/ StartCheck(c)
    \/ StartRecord(c)
    \/ StartCreate(c)
    \/ StartStore(c)

StopStreamSteps(c) ==
    \/ \E u \in Users : CallStopStream(c, u)
    \/ StopCheck(c)
    \/ StopLookup(c)
    \/ StopDel(c)

UpdateParamsSteps(c) ==
    \/ \E u \in Users, m \in ParamModels, t \in ParamThresholds : CallUpdateParams(c, u, m, t)
    \/ ParamsCheck(c)
    \/ ParamsLookup(c)
    \/ ParamsModel(c)
    \/ ParamsThreshold(c)

\* update_url called with arguments from the given sets.
UpdateUrlSteps(c, cams, srcs) ==
    \/ \E u \in Users, cam \in cams, src \in srcs : CallUpdateUrl(c, u, cam, src)
    \/ UrlCheck(c)
    \/ UrlLookup(c)
    \/ UrlRelease(c)
    \/ UrlOpen(c)

\* The whole program: every VideoManager method with every argument, the
\* background threads and the consumers.
Next ==
    \/ \E s \in Sessions : UnitStep(s)
    \/ \E c \in Callers :
          \/ StartStreamSteps(c, Cameras, Urls, StartModels, MaxSessions)
          \/ StopStreamSteps(c)
          \/ StopSteps(c)
          \/ UpdateParamsSteps(c)
          \/ UpdateUrlSteps(c, Cameras, Urls)
    \/ \E k \in Consumers : ConsumerStep(k)

Spec == Init /\ [][Next]_vars

\* Session lifecycle and frame delivery: streams are started, replaced and
\* stopped while their threads publish and a consumer drains get_frames.
NextLife ==
    \/ \E s \in Sessions : UnitStep(s)
    \/ \E c \in Callers :
          \/ StartStreamSteps(c, {10}, {"rtsp://a"}, StartModels, MaxSessions)
          \/ StopStreamSteps(c)
          \/ StopSteps(c)
          \/ UpdateUrlSteps(c, {10}, {"0"})
    \/ \E k \in Consumers : ConsumerStep(k)

SpecLife == Init /\ [][NextLife]_vars

\* Reconfiguration: update_params against the background thread of the one
\* stream that is started, and a consumer draining it.
NextParams ==
    \/ \E s \in Sessions : UnitStep(s)
    \/ \E c \in Callers :
          \/ FirstStartSteps(c, {10}, {"rtsp://a"}, StartModels)
          \/ UpdateParamsSteps(c)
    \/ \E k \in Consumers : ConsumerStep(k)

SpecParams == Init /\ [][NextParams]_vars

\* Source replacement: update_url against start_stream and stop_stream.
NextUrl ==
    \/ \E s \in Sessions : UnitStep(s)
    \/ \E c \in Callers :
          \/ StartStreamSteps(c, Cameras, Urls, StartModels, MaxSessions)
          \/ StopStreamSteps(c)
          \/ StopSteps(c)
          \/ UpdateUrlSteps(c, Cameras, Urls)

SpecUrl == Init /\ [][NextUrl]_vars

\* Overlapping calls: two threads call start_stream and stop_stream.
NextConc ==
    \/ \E s \in Sessions : UnitStep(s)
    \/ \E c \in ConcCallers :
          \/ StartStreamSteps(c, {10}, {"rtsp://a"}, StartModels, MaxSessions)
          \/ StopStreamSteps(c)
          \/ StopSteps(c)

SpecConc == Init /\ [][NextConc]_vars

\* Stopping: one stream is started and stop() is called on it, repeatedly.
NextStop ==
    \/ \E s \in Sessions : UnitStep(s)
    \/ \E c \in Callers :
          \/ FirstStartSteps(c, {10}, {"rtsp://a"}, StartModels)
          \/ \E s \in Sessions : CallStop(c, s)
          \/ StopSteps(c)
    \/ \E k \in Consumers : ConsumerStep(k)

SpecStop == Init /\ [][NextStop]_vars

\* The same, with the scheduling the interpreter provides: a thread that can
\* take a step eventually takes one (every capture read returns), and a call
\* of stop() that can proceed does.
SpecStopFair ==
    /\ SpecStop
    /\ \A s \in Sessions : WF_vars(UnitStep(s))
    /\ \A c \in Callers : WF_vars(StopSteps(c))

\* The registry with several users: streams are started and stopped for
\* every user of the registry, each user on a camera of their own.
NextReg ==
    \/ \E s \in Sessions : UnitStep(s)
    \/ \E c \in Callers :
          \/ \E u \in AllUsers, m \in StartModels, t \in StartThresholds :
                CallStartStream(c, u, 10 * u, "rtsp://a", m, t)
          \/ StartCheck(c)
          \/ StartLookup(c)
          \/ StartRecord(c)
          \/ StartCreate(c)
          \/ StartStore(c)
          \/ \E u \in AllUsers : CallStopStream(c, u)
          \/ StopCheck(c)
          \/ StopLookup(c)
          \/ StopDel(c)
          \/ StopSteps(c)

SpecReg == Init /\ [][NextReg]_vars

\* The three locks of one stream: update_params and update_url against the
\* background thread of a stream started with a model, and a consumer
\* draining the stream.
NextLocks ==
    \/ \E s \in Sessions : UnitStep(s)
    \/ \E c \in Callers :
          \/ FirstStartSteps(c, {10}, {"rtsp://a"}, {"m1"})
          \/ \E u \in Users, m \in {"None", "m1"} : CallUpdateParams(c, u, m, <<50>>)
          \/ ParamsCheck(c)
          \/ ParamsLookup(c)
          \/ ParamsModel(c)
          \/ ParamsThreshold(c)
          \/ UpdateUrlSteps(c, {10}, {"0"})
    \/ \E k \in Consumers : ConsumerStep(k)

SpecLocks == Init /\ [][NextLocks]_vars

\* Two users side by side: user 2 starts a stream; every registry operation is
\* called for user 1, on a camera of their own, while the threads of both
\* streams read, fail and publish.
NextIso ==
    \/ \E s \in Sessions : UnitStep(s)
    \/ \E c \in Callers :
          \/ \E t \in StartThresholds : CallStartStream(c, 2, 20, "rtsp://a", "None", t)
          \/ \E t \in StartThresholds : CallStartStream(c, 1, 10, "rtsp://a", "m1", t)
          \/ StartCheck(c)
          \/ StartLookup(c)
          \/ StartRecord(c)
          \/ StartCreate(c)
          \/ StartStore(c)
          \/ CallStopStream(c, 1)
          \/ StopCheck(c)
          \/ StopLookup(c)
          \/ StopDel(c)
          \/ StopSteps(c)
          \/ CallUpdateParams(c, 1, "m1", <<50>>)
          \/ ParamsCheck(c)
          \/ ParamsLookup(c)
          \/ ParamsModel(c)
          \/ ParamsThreshold(c)
          \/ CallUpdateUrl(c, 1, 10, "0")
          \/ UrlCheck(c)
          \/ UrlLookup(c)
          \/ UrlRelease(c)
          \/ UrlOpen(c)

SpecIso == Init /\ [][NextIso]_vars

\* Overlapping calls on one stream: update_url in one thread, stop_stream in
\* another.
NextConcUrl ==
    \/ \E s \in Sessions : UnitStep(s)
    \/ \E c \in ConcCallers :
          \/ FirstStartSteps(c, {10}, {"rtsp://a"}, StartModels)
          \/ UpdateUrlSteps(c, {10}, {"0"})
          \/ StopStreamSteps(c)
          \/ StopSteps(c)

SpecConcUrl == Init /\ [][NextConcUrl]_vars

\* Publishing with nobody reading: a stream is started and reconfigured, and
\* get_frames is never called.
NextPublish ==
    \/ \E s \in Sessions : UnitStep(s)
    \/ \E c \in Callers :
          \/ FirstStartSteps(c, {10}, {"rtsp://a"}, StartModels)
          \/ UpdateParamsSteps(c)

SpecPublish == Init /\ [][NextPublish]_vars

\* The same, with a background thread that can take a step eventually taking
\* one.
SpecPublishFair ==
    /\ SpecPublish
    /\ \A s \in Sessions : WF_vars(UnitStep(s))

(***************************************************************************)
(* Properties.                                                             *)
(***************************************************************************)

\* The background threads of user u's streams that are alive.
UnitsOf(u) == {s \in Sessions : owner[s] = u /\ Alive(s)}

\* C1: for every user, at most one background thread of that user's streams
\* is alive at any instant, whatever the interleaving of start_stream calls.
C1_OneUnitPerViewer == \A u \in AllUsers : Cardinality(UnitsOf(u)) <= 1

\* C2: a get_frames call made while the user has no stream yields no frame and
\* never blocks: its generator gets no further than finding the stream absent.
C2_NoSessionNoFrames ==
    \A k \in Consumers : gen[k].nosess => gen[k].pc \in {"created", "ended"}

\* Consumer k took hold of a running stream and now waits on the event of that
\* stream after its stop() has returned: the thread is gone and nothing can set
\* the event again.
Stuck(k) ==
    /\ gen[k].pc = "wait"
    /\ gen[k].live
    /\ stopped[gen[k].s]
    /\ ~Alive(gen[k].s)
    /\ ~new_frame_event[gen[k].s]

\* C3: once its stream is stopped, no get_frame call stays blocked: a reader of
\* a stopped stream is released (and its sequence ends).
C3_StoppedReaderReleased == \A k \in Consumers : ~Stuck(k)

\* C4: the frame a get_frame call returns is strictly fresher than the frame
\* the previous call of the same consumer returned.
C4_StrictlyFresher ==
    \A k \in Consumers : gen[k].pc = "clear" => gen[k].f.id > gen[k].last

\* A second frame is being returned after an earlier one.
C4_Witness == \E k \in Consumers : gen[k].pc = "clear" /\ gen[k].last > 0

\* C5: whenever the event is set the slot holds a frame of one acquisition
\* cycle, and get_frame never gets hold of an empty slot (a call made before
\* the first publication is still waiting).
C5_NeverEmptyFrame ==
    /\ \A s \in Sessions : new_frame_event[s] =>
          /\ frame[s] # NoFrame
          /\ frame[s].id \in 1..nacq[s]
    /\ \A k \in Consumers :
          /\ gen[k].pc # "AttributeError"
          /\ gen[k].pc \in {"copy", "clear"} => frame[gen[k].s] # NoFrame
          /\ gen[k].pc = "clear" => gen[k].f.id \in 1..nacq[gen[k].s]

\* A consumer that began waiting before the first publication now holds the
\* first frame.
C5_Witness ==
    \E k \in Consumers : gen[k].pc = "clear" /\ gen[k].last = 0 /\ gen[k].f.id = 1

\* update_url(u, cam, ...) of caller c targets the stream of u's most recent
\* start_stream call.
C6_Matches(c) == streams[call[c].u] # 0 /\ lastcam[call[c].u] = call[c].cam

\* C6: update_url swaps the capture source if and only if the user has a
\* stream and camera_id is the one of the user's most recent start_stream;
\* in every other case it returns without an error and leaves the stream's
\* source, its capture and the registry as they were. Nothing else replaces a
\* stream's source.
C6_SwapIffMatching ==
    [][ /\ \A c \in Callers :
            /\ (call[c].pc = "uu_check" /\ call'[c].pc # "uu_check") =>
                  IF C6_Matches(c)
                  THEN call'[c].pc = "uu_lookup"
                  ELSE /\ result'[c] = [op |-> "update_url", out |-> "noop"]
                       /\ UNCHANGED <<regVars, capVars>>
            /\ (call[c].pc = "uu_open" /\ call'[c].pc # "uu_open") =>
                  /\ C6_Matches(c)
                  /\ call[c].s = streams[call[c].u]
                  /\ result'[c] = [op |-> "update_url", out |-> "swapped"]
                  /\ url'[call[c].s] = call[c].url
                  /\ handles'[cap'[call[c].s]] = VideoCapture(call[c].url)
                  /\ ~handles'[cap[call[c].s]].open
            /\ call[c].op = "update_url" => UNCHANGED regVars
        /\ \A s \in 1..nsess :
            (cap'[s] # cap[s] \/ url'[s] # url[s]) =>
                \E c \in Callers : call[c].pc = "uu_open" /\ call[c].s = s
      ]_vars

\* A matching update_url has swapped the source of the user's stream: the
\* stream's first capture is released and its current one is a later, open one.
C6_Witness ==
    \E c \in Callers, s \in Sessions :
        /\ result[c] = [op |-> "update_url", out |-> "swapped"]
        /\ streams[1] = s
        /\ cap[s] > s
        /\ handles[cap[s]].open

\* C7: update_params changes exactly the fields it is given, and the
\* (model_name, threshold) pair the background thread works with in a cycle is
\* a pair the stream held as its complete configuration, never the model of one
\* call with the threshold from before it.
C7_AtomicPartialUpdate ==
    [][ /\ \A s \in Sessions :
            thread'[s].pc \in {"infer", "publish", "set"} =>
                <<thread'[s].model, thread'[s].thr>> \in cfgs'[s]
        /\ \A c \in Callers :
            /\ (call[c].pc = "up_model" /\ call'[c].pc = "up_thr") =>
                  /\ model_name'[call[c].s] =
                        IF call[c].model = PyNone THEN model_name[call[c].s]
                        ELSE IF call[c].model = "None" THEN PyNone ELSE call[c].model
                  /\ threshold' = threshold
            /\ (call[c].pc = "up_thr" /\ call'[c].pc # "up_thr") =>
                  /\ threshold'[call[c].s] =
                        IF call[c].thr = <<>> THEN threshold[call[c].s] ELSE call[c].thr[1]
                  /\ model_name' = model_name
      ]_vars

\* The thread works with the pair of a call that set both fields.
C7_Witness ==
    \E s \in Sessions :
        /\ thread[s].pc = "publish"
        /\ thread[s].model = "m1" /\ thread[s].thr = 50
        /\ <<PyNone, 30>> \in cfgs[s]

\* The configuration a frame was processed under: raw frames carry no threshold.
FrameUnder(f, p) == IF f.model = PyNone THEN p[1] = PyNone ELSE <<f.model, f.thr>> = p

\* C8: a cycle that begins after update_params has returned works with the
\* stream's current parameters, and every stored frame was processed under one
\* complete configuration of the stream.
C8_EffectByNextCycle ==
    \A s \in Sessions :
        /\ (thread[s].pc \in {"infer", "publish", "set"} /\ ~dirty[s]) =>
              <<thread[s].model, thread[s].thr>> = <<model_name[s], threshold[s]>>
        /\ frame[s] # NoFrame => \E p \in cfgs[s] : FrameUnder(frame[s], p)

\* A frame processed under the updated parameters is stored, by a cycle that
\* began after the update.
C8_Witness ==
    \E s \in Sessions :
        /\ thread[s].pc = "set" /\ ~dirty[s]
        /\ frame[s].model = "m1" /\ frame[s].thr = 50
        /\ <<PyNone, 30>> \in cfgs[s]

\* update_params("m1", 0.5) has returned on stream s, which was started
\* without a model, and the stream still holds that configuration.
C9_Updated(s) ==
    /\ <<PyNone, 30>> \in cfgs[s]
    /\ model_lock[s] = 0
    /\ model_name[s] = "m1" /\ threshold[s] = 50

\* The background thread of s stores a frame in this step.
C9_Publishes(s) == thread[s].pc = "publish" /\ thread'[s].pc = "set"

\* C9 (as claimed): once update_params("m1", 0.5) has returned, the next frame
\* the thread publishes is the annotated one.
C9_NextFrameAnnotated ==
    [][ \A s \in Sessions :
            (C9_Updated(s) /\ C9_Publishes(s)) => frame'[s].model = "m1" ]_vars

\* C9 (amended): once update_params("m1", 0.5) has returned, every frame
\* published by a cycle that began after the return is annotated with m1 at
\* 0.5; only the cycle under way during the call may still publish a raw frame.
C9_AnnotatedFromNextCycle ==
    [][ \A s \in Sessions :
            (C9_Updated(s) /\ C9_Publishes(s) /\ ~dirty[s]) =>
                frame'[s].model = "m1" /\ frame'[s].thr = 50 ]_vars

\* An annotated frame is stored on a stream that had been started without a model.
C9_Witness ==
    \E s \in Sessions :
        /\ C9_Updated(s) /\ ~dirty[s]
        /\ thread[s].pc = "set"
        /\ frame[s].model = "m1" /\ frame[s].id > 1

\* C10: stop() sets running to False, then waits for the thread, then releases
\* the capture: the release is made with the thread gone, and once stop() has
\* returned the thread reads nothing and the frame slot is not written again.
C10_StopOrder ==
    [][ /\ \A c \in Callers :
            /\ call'[c].pc \in {"stop_join", "stop_release"} => ~running'[call'[c].s]
            /\ (call[c].pc = "stop_release" /\ call'[c].pc # "stop_release") =>
                  /\ ~Alive(call[c].s)
                  /\ ~handles'[cap[call[c].s]].open
        /\ \A s \in Sessions :
            /\ stopped'[s] => thread'[s].pc \in {"done", "crashed"}
            /\ stopped[s] => /\ frame'[s] = frame[s]
                             /\ nacq'[s] = nacq[s]
                             /\ thread'[s] = thread[s]
      ]_vars

\* stop() has returned on a stream that had published a frame.
C10_Witness ==
    \E s \in Sessions :
        /\ stopped[s]
        /\ frame[s] # NoFrame
        /\ ~handles[cap[s]].open

\* C11: a second stop() on a stream whose first stop() has returned raises
\* nothing, never waits, and leaves the stream as the first call left it: the
\* thread terminated, running False, the capture released.
C11_StopTwice ==
    [][ /\ \A s \in Sessions :
            stopped'[s] => /\ ~running'[s]
                           /\ ~Alive(s)'
                           /\ ~handles'[cap'[s]].open
        /\ \A c \in Callers :
            (call[c].op = "stop" /\ stopped[call[c].s]) =>
                /\ call[c].pc = "stop_join" => Joined(call[c].s)
                /\ call'[c] # call[c] =>
                      /\ UNCHANGED <<running, thread, handles, cap, frame, new_frame_event>>
                      /\ call'[c].op = "idle" =>
                            result'[c] = [op |-> "stop", out |-> "ok"]
      ]_vars

\* A second stop() is past its join on a stream that had published a frame
\* before the first stop() returned.
C11_Witness ==
    \E c \in Callers :
        /\ call[c].op = "stop" /\ call[c].pc = "stop_release"
        /\ stopped[call[c].s]
        /\ frame[call[c].s] # NoFrame

\* C12: once running is False the thread starts no further cycle: the next
\* evaluation of the loop condition ends it, after a successful as well as
\* after a failed read; the thread terminates and stop() returns.
C12_StopObserved ==
    /\ [][ \A s \in Sessions :
              ~running[s] =>
                  /\ thread[s].pc = "while" => thread'[s].pc \in {"while", "done"}
                  /\ thread'[s].pc = "getcap" => thread[s].pc = "getcap" ]_vars
    /\ \A s \in Sessions : (s <= nsess /\ ~running[s]) ~> ~Alive(s)
    /\ \A c \in Callers : (call[c].op = "stop") ~> (call[c].op = "idle")

\* stop() has returned on a stream whose thread left the loop through the
\* loop condition, after it had read frames.
C12_Witness ==
    \E s \in Sessions :
        /\ stopped[s]
        /\ thread[s].pc = "done"
        /\ nacq[s] > 0

\* C13: stop_stream(u) with a stream present stops it and deletes the key, so
\* that on return u has no stream and the thread of the stream it had is
\* terminated; with no stream it returns having changed nothing. It raises
\* nothing, and it leaves the entries and the streams of every other user alone.
C13_StopStream ==
    [][ \A c \in Callers :
          (call[c].op = "stop_stream" /\ call'[c] # call[c]) =>
            LET u == call[c].u IN
            /\ \A v \in AllUsers \ {u} :
                  /\ streams'[v] = streams[v]
                  /\ user_to_camera'[v] = user_to_camera[v]
            /\ \A s \in Sessions :
                  s # streams[u] => /\ running'[s] = running[s]
                                    /\ thread'[s] = thread[s]
                                    /\ cap'[s] = cap[s]
                                    /\ s <= nsess => handles'[cap[s]] = handles[cap[s]]
            /\ (call[c].pc = "sp_check" /\ streams[u] = 0) =>
                  /\ result'[c] = [op |-> "stop_stream", out |-> "noop"]
                  /\ UNCHANGED <<regVars, running, thread, capVars, frameVars, cfgVars>>
            /\ (call[c].pc = "sp_check" /\ streams[u] # 0) => call'[c].pc = "sp_lookup"
            /\ call'[c].op = "idle" => result'[c].out \in {"ok", "noop"}
            /\ (call'[c].op = "idle" /\ call[c].pc # "sp_check") =>
                  /\ streams[u] = call[c].s
                  /\ streams'[u] = 0
                  /\ ~running'[call[c].s]
                  /\ ~Alive(call[c].s)
                  /\ ~handles'[cap[call[c].s]].open ]_vars

\* stop_stream has stopped and removed the stream of user 1 while the stream of
\* user 2 is registered and its thread runs.
C13_Witness ==
    \E c \in Callers :
        /\ result[c] = [op |-> "stop_stream", out |-> "ok"]
        /\ call[c].op = "idle"
        /\ streams[1] = 0 /\ owner[1] = 1 /\ stopped[1]
        /\ streams[2] = 2 /\ owner[2] = 2 /\ Alive(2)

\* C14: a cycle that begins after update_url has returned works on the
\* stream's current capture: the thread copies self.cap while it holds
\* cap_lock in every iteration, so only the cycle under way at the swap can
\* still hold the capture that was replaced.
C14_ReadsNewHandle ==
    \A s \in Sessions :
        /\ thread[s].pc = "cap" => cap_lock[s] = UnitThread
        /\ (thread[s].pc \in {"read", "getcfg", "cfg", "infer", "publish", "set"}
              /\ ~swapped[s]) => thread[s].cap = cap[s]

\* After a swap the thread has read a frame from the new capture, in a cycle
\* begun after the swap; the frame in the slot still comes from the old one.
C14_Witness ==
    \E s \in Sessions :
        /\ thread[s].pc = "getcfg" /\ ~swapped[s]
        /\ thread[s].frame.src = cap[s]
        /\ frame[s] # NoFrame /\ frame[s].src # cap[s]

\* C15: a failure of the model load or of the inference in a cycle does not
\* end the thread: for as long as running is True the thread of a constructed
\* stream is alive and goes on to its next cycle.
C15_InferenceFailureSurvived ==
    \A s \in Sessions : (s <= nsess /\ running[s]) => Alive(s)

\* C16: a cycle whose read fails stores nothing: the frame slot, the event and
\* the parameters stay as they were and the thread is back at the loop
\* condition; whatever is stored in the slot or handed to a consumer is the
\* frame of a successful read.
C16_FailedReadPublishesNothing ==
    [][ /\ \A s \in Sessions :
            /\ (thread[s].pc = "read" /\ thread'[s] # thread[s] /\ nacq'[s] = nacq[s]) =>
                  /\ thread'[s].pc = "while"
                  /\ ~thread'[s].success
                  /\ frame'[s] = frame[s]
                  /\ new_frame_event'[s] = new_frame_event[s]
                  /\ model_name'[s] = model_name[s]
                  /\ threshold'[s] = threshold[s]
            /\ (frame'[s] # frame[s] /\ s <= nsess) =>
                  /\ thread[s].pc = "publish"
                  /\ frame'[s].id = nacq[s]
                  /\ frame'[s].id > 0
                  /\ frame'[s].src = thread[s].cap
        /\ \A k \in Consumers :
            (gen'[k].f # gen[k].f /\ gen'[k].f # NoFrame) =>
                gen'[k].f.id \in 1..nacq[gen[k].s]
      ]_vars

\* The thread is back at the loop condition after a failed read on a stream
\* that holds an earlier frame, with the event still set for it.
C16_Witness ==
    \E s \in Sessions :
        /\ thread[s].pc = "while" /\ ~thread[s].success
        /\ running[s]
        /\ handles[cap[s]].open
        /\ frame[s] # NoFrame /\ frame[s].id = nacq[s]
        /\ nacq[s] < MaxFrames
        /\ new_frame_event[s]

\* The frame read in the current cycle of stream s, as cap.read() returned it.
RawFrame(s) == [id |-> nacq[s], src |-> thread[s].cap, model |-> PyNone, thr |-> 0]

\* C17: the frame a cycle stores is fixed by the parameters the cycle copied:
\* with no model (the stream constructed with "None" or updated with it) it is
\* the frame as read, otherwise that frame annotated by exactly that model with
\* exactly that threshold.
C17_PublishedByConfig ==
    [][ /\ \A s \in Sessions :
            /\ (thread[s].pc = "cfg" /\ thread'[s].pc # "cfg") =>
                  /\ thread'[s].model = model_name[s]
                  /\ thread'[s].thr = threshold[s]
                  /\ thread'[s].frame = RawFrame(s)
            /\ (thread[s].pc = "publish" /\ thread'[s].pc = "set") =>
                  frame'[s] = IF thread[s].model = PyNone
                              THEN RawFrame(s)
                              ELSE [RawFrame(s) EXCEPT !.model = thread[s].model,
                                                       !.thr = thread[s].thr]
        /\ \A c \in Callers :
            (call[c].pc = "ss_create" /\ call'[c].pc = "ss_store") =>
                model_name'[call'[c].s] =
                    IF call[c].model = "None" THEN PyNone ELSE call[c].model
      ]_vars

\* A stream that ran with model m1 was updated with "None" and has stored the
\* frame of a later cycle as it was read.
C17_Witness ==
    \E s \in Sessions :
        /\ thread[s].pc = "set" /\ ~dirty[s]
        /\ <<"m1", 30>> \in cfgs[s]
        /\ model_name[s] = PyNone
        /\ frame[s] = RawFrame(s)

\* The lifecycle state of stream s as the code records it: self.running is True
\* from __init__ (which also starts the thread, so Starting is over when the
\* constructor returns) until stop() clears it; the stream is Stopping while
\* stop() joins and releases, and Stopped once stop() has returned.
LifecycleState(s) ==
    IF s > nsess THEN "None"
    ELSE IF running[s] THEN "Running"
    ELSE IF stopped[s] THEN "Stopped"
    ELSE "Stopping"

\* C18: the thread of a stream is alive exactly when the stream is Starting or
\* Running: alive from the return of the constructor on, and not alive when
\* the stream is Stopping or Stopped.
C18_RunsIffStartingOrRunning ==
    \A s \in Sessions :
        s <= nsess => (Alive(s) <=> LifecycleState(s) \in {"Starting", "Running"})

\* The locks of stream s its background thread holds.
UnitHolds(s) ==
    {l \in {"cap_lock", "model_lock", "lock"} :
        \/ l = "cap_lock" /\ cap_lock[s] = UnitThread
        \/ l = "model_lock" /\ model_lock[s] = UnitThread
        \/ l = "lock" /\ lock[s]}

\* C19: the background thread holds at most one of cap_lock, model_lock and
\* lock at a time and none of them during cap.read() or the inference, so
\* update_params and get_frame never wait for a read or an inference; whoever
\* holds a lock is at a statement that needs no other lock, so no deadlock
\* among the three locks is reachable.
C19_LockDiscipline ==
    \A s \in Sessions :
        /\ Cardinality(UnitHolds(s)) <= 1
        /\ thread[s].pc \in {"read", "infer"} => UnitHolds(s) = {}
        /\ ~Alive(s) => UnitHolds(s) = {}
        /\ cap_lock[s] = UnitThread => thread[s].pc = "cap"
        /\ model_lock[s] = UnitThread => thread[s].pc = "cfg"
        /\ lock[s] => thread[s].pc = "set"
        /\ \A c \in Callers :
              /\ cap_lock[s] = c => (call[c].pc = "uu_open" /\ call[c].s = s)
              /\ model_lock[s] = c => (call[c].pc = "up_thr" /\ call[c].s = s)
              /\ ~(cap_lock[s] = c /\ model_lock[s] = c)

\* update_params is inside its `with self.model_lock:` block while the thread
\* runs the inference of a cycle.
C19_Witness ==
    \E s \in Sessions, c \in Callers :
        /\ thread[s].pc = "infer"
        /\ model_lock[s] = c
        /\ call[c].pc = "up_thr"

\* C20: update_url and stop() touch self.cap only while the calling thread
\* holds the stream's cap_lock: a caller that is about to replace the capture
\* in update_url, or about to read and release it in stop(), is the holder.
C20_HandleUnderCapLock ==
    \A c \in Callers :
        call[c].pc \in {"uu_open", "stop_release"} => cap_lock[call[c].s] = c

\* Stream s is in the same state before and after the step: running, capture
\* and its source, parameters, frame slot and event.
SameStream(s) ==
    /\ running'[s] = running[s]
    /\ cap'[s] = cap[s]
    /\ url'[s] = url[s]
    /\ handles'[cap[s]] = handles[cap[s]]
    /\ model_name'[s] = model_name[s]
    /\ threshold'[s] = threshold[s]
    /\ frame'[s] = frame[s]
    /\ new_frame_event'[s] = new_frame_event[s]

\* C21: a step of a registry call made for user u, and a step of the thread of
\* a stream of u (a failed read and a failed inference included), leaves the
\* streams of every other user and their keys in streams and user_to_camera
\* as they were.
C21_Isolation ==
    [][ /\ \A c \in Callers :
            call'[c] # call[c] =>
                LET u == IF call[c].op = "idle" THEN call'[c].u ELSE call[c].u IN
                /\ \A v \in AllUsers \ {u} :
                      /\ streams'[v] = streams[v]
                      /\ user_to_camera'[v] = user_to_camera[v]
                /\ \A s \in 1..nsess : owner[s] # u => (SameStream(s) /\ thread'[s] = thread[s])
        /\ \A s \in 1..nsess :
            thread'[s] # thread[s] =>
                /\ UNCHANGED regVars
                /\ \A s2 \in 1..nsess : owner[s2] # owner[s] =>
                      (SameStream(s2) /\ thread'[s2] = thread[s2])
      ]_vars

\* The thread of user 1's stream has been ended by a failed inference while
\* user 2's stream is registered, running and has published a frame.
C21_Witness ==
    /\ owner[1] = 1 /\ thread[1].pc = "crashed"
    /\ owner[2] = 2 /\ streams[2] = 2
    /\ running[2] /\ Alive(2)
    /\ frame[2] # NoFrame

\* C22: with one consumer on a stream, whenever the consumer is between two
\* get_frame calls (or waiting in one) and the stream has published a frame
\* newer than the one the consumer got last, the event is set, so that the
\* next get_frame returns that frame without a further publication.
C22_NoLostSignal ==
    \A k \in Consumers :
        (/\ gen[k].pc = "wait"
         /\ frame[gen[k].s].id > gen[k].last
         /\ thread[gen[k].s].pc # "set") => new_frame_event[gen[k].s]

\* The captures stream s has opened that are still open.
OpenHandles(s) == {i \in opened[s] : handles[i].open}

\* C23: a stream has at most one open capture at any instant, and once its
\* stop() has returned and no update_url call is at work on it, every capture
\* it ever opened is released, also when update_url and stop() overlap.
C23_NoHandleLeftOpen ==
    \A s \in Sessions :
        /\ Cardinality(OpenHandles(s)) <= 1
        /\ (/\ stopped[s]
            /\ \A c \in ConcCallers : ~(call[c].op = "update_url" /\ call[c].s = s))
              => OpenHandles(s) = {}

\* C24: every user with a key in streams has a key in user_to_camera, and
\* whenever no start_stream call for the user is under way its value is the
\* camera_id of the user's most recent start_stream call; no call ends in a
\* KeyError, in particular not update_url's read of user_to_camera.
C24_Bookkeeping ==
    /\ \A u \in AllUsers :
          streams[u] # 0 =>
              /\ user_to_camera[u] # 0
              /\ (\A c \in Callers : ~(call[c].op = "start_stream" /\ call[c].u = u))
                    => user_to_camera[u] = lastcam[u]
    /\ \A c \in Callers : result[c].out # "KeyError"

\* The user's stream was replaced by a start_stream for another camera, and an
\* update_url for that camera found the entry and swapped the source.
C24_Witness ==
    \E c \in Callers :
        /\ call[c].op = "idle"
        /\ result[c] = [op |-> "update_url", out |-> "swapped"]
        /\ streams[1] = 2 /\ stopped[1]
        /\ user_to_camera[1] = 99
        /\ url[2] = "0"

\* C25: a get_frames generator works on the stream that was registered for
\* the user when it tested `user_id not in self.streams`: the stream it holds
\* is that one, and every frame it gets was read from a capture of that stream.
C25_BoundToCheckedSession ==
    \A k \in Consumers :
        /\ gen[k].s # 0 => gen[k].s = gen[k].chk
        /\ gen[k].f # NoFrame => gen[k].f.src \in opened[gen[k].chk]

\* C26: the thread stores the frame of a successful cycle over whatever the
\* slot holds and sets the event, whether or not the event was still set for
\* the previous frame; it waits for nothing a consumer does, so with get_frames
\* never called every cycle that has a frame completes and the slot holds the
\* latest frame read.
C26_SingleSlotNoWait ==
    /\ [][ \A s \in Sessions :
              /\ (thread[s].pc = "publish" /\ thread'[s].pc = "set") =>
                    frame'[s] = thread[s].frame
              /\ (thread[s].pc = "set" /\ thread'[s].pc # "set") =>
                    /\ new_frame_event'[s]
                    /\ frame'[s] = frame[s]
                    /\ frame[s].id = nacq[s] ]_vars
    /\ \A s \in Sessions :
          (thread[s].pc = "publish") ~>
              (thread[s].pc = "while" /\ new_frame_event[s] /\ frame[s].id = nacq[s])

\* A second frame has been stored over the first, whose event was never cleared.
C26_Witness ==
    \E s \in Sessions :
        /\ thread[s].pc = "while"
        /\ frame[s].id = 2
        /\ new_frame_event[s]
        /\ \A k \in Consumers : gen[k].pc = "none"

====
